---- MODULE Spec2Model ----
(***************************************************************************)
(* Model of the repository introspection engine (src-tauri/src/git.rs).    *)
(* Every operation opens the repository, performs one query and returns a  *)
(* result; checkout_branch is the only mutator.  The state below is the    *)
(* on-disk repository the operations read: the directory tree searched by  *)
(* open_repo and measured by dir_size, the references and HEAD, the commit *)
(* graph with its trees and the status entries of the working directory.   *)
(* `op' and `result' record the last call and what it returned.            *)
(***************************************************************************)
EXTENDS Integers, Sequences, FiniteSets, TLC

VARIABLES
    fsys,       \* directory tree: sequence of entries, entry i has a parent < i (0 = root)
    isBare,     \* Repository::is_bare(): core.bare of the configuration
    branches,   \* local branches: name -> commit id
    remotes,    \* remote-tracking branches: name -> commit id
    HEAD,       \* [kind: "symbolic", name] or [kind: "detached", target]
    workdir,    \* commit whose tree the working directory was last updated to
    parents,    \* commit id -> sequence of parent ids (first parent first)
    cmeta,      \* commit id -> [time, author_time, author, message]
    trees,      \* commit id -> (path -> blob bytes, or Absent)
    statuses,   \* path -> set of git2::Status flags reported for it
    op,         \* the last operation called, with its arguments
    result      \* what it returned

vars == <<fsys, isBare, branches, remotes, HEAD, workdir, parents, cmeta,
          trees, statuses, op, result>>

NoOp == [name |-> "none"]
NoResult == [ok |-> TRUE, kind |-> "none"]
None == "None"

Err(kind) == [ok |-> FALSE, kind |-> "error", error |-> kind]

(***************************************************************************)
(* u64 arithmetic.  A u64 is four 16-bit limbs, least significant first,   *)
(* so that values up to 2^64 - 1 keep their width.                         *)
(***************************************************************************)
LimbBase == 65536

U64 == [1..4 -> 0..(LimbBase - 1)]
U64Zero == <<0, 0, 0, 0>>
U64One == <<1, 0, 0, 0>>
U64Half == <<0, 0, 0, 32768>>                   \* 2^63
U64Max == <<LimbBase - 1, LimbBase - 1, LimbBase - 1, LimbBase - 1>>

\* a + b as five limbs (the fifth limb is the carry out of 64 bits)
WideAdd(a, b) ==
    LET s1 == a[1] + b[1]
        s2 == a[2] + b[2] + (s1 \div LimbBase)
        s3 == a[3] + b[3] + (s2 \div LimbBase)
        s4 == a[4] + b[4] + (s3 \div LimbBase)
    IN  <<s1 % LimbBase, s2 % LimbBase, s3 % LimbBase, s4 % LimbBase,
          s4 \div LimbBase>>

wrapping_add(a, b) == SubSeq(WideAdd(a, b), 1, 4)

\* u64::saturating_add
saturating_add(a, b) ==
    LET w == WideAdd(a, b)
    IN  IF w[5] > 0 THEN U64Max ELSE SubSeq(w, 1, 4)

(***************************************************************************)
(* The directory tree.  Entry i of a tree is                               *)
(*   [parent, name, kind, len, ok, link]                                   *)
(* kind is what fs::symlink_metadata reports for the entry itself; len is  *)
(* metadata.len(); ok = FALSE is an entry whose metadata cannot be read    *)
(* (file) or which can be neither listed nor searched (dir).  link is, for *)
(* a symlink, the directory it points to (NoPath: the link dangles) and,    *)
(* for a regular file called `.git', the directory its `gitdir:' line      *)
(* names (NoPath: the file holds no such line).                            *)
(* A symlink met as an entry of a listing is an entry of its own kind; a   *)
(* symlink given as the path to list is followed.  Path 0 is the top       *)
(* directory; no directory above it holds a repository.                    *)
(***************************************************************************)
MaxNodes == 3

FreeNames == {".git", "objects"}
Root == 0
NoPath == -1
DirLen == <<4096, 0, 0, 0>>
LinkLen == <<7, 0, 0, 0>>
HeadLen == <<23, 0, 0, 0>>
MaxFileLen == <<LimbBase - 1, LimbBase - 1, LimbBase - 1, 32767>>   \* 2^63 - 1
FileLens == {U64One, MaxFileLen}

IsDir(fs, p) == p = Root \/ (p \in 1..Len(fs) /\ fs[p].kind = "dir")

ChildrenOf(fs, p) == {i \in 1..Len(fs) : fs[i].parent = p}

\* the entry called name in directory p itself, NoPath when there is none
ChildNamed(fs, p, name) ==
    IF \E i \in ChildrenOf(fs, p) : fs[i].name = name
    THEN CHOOSE i \in ChildrenOf(fs, p) : fs[i].name = name
    ELSE NoPath

\* the directory a path denotes when the system follows it: a symlink
\* stands for the directory it points to
Resolve(fs, p) ==
    IF p \in 1..Len(fs) /\ fs[p].kind = "symlink" THEN fs[p].link ELSE p

\* directory d can be entered: it and every directory above it can be
\* listed and searched
RECURSIVE Searchable(_, _)
Searchable(fs, d) ==
    \/ d = Root
    \/ /\ d \in 1..Len(fs)
       /\ fs[d].kind = "dir"
       /\ fs[d].ok
       /\ Searchable(fs, fs[d].parent)

\* the system can look path p up: every directory above it can be entered
PathExists(fs, p) == p = Root \/ (p \in 1..Len(fs) /\ Searchable(fs, fs[p].parent))

\* fs::read_dir(path) succeeds: path can be looked up and is, or links to,
\* a directory that can be entered
ReadDirOk(fs, p) == PathExists(fs, p) /\ Searchable(fs, Resolve(fs, p))

\* Path::join followed by the system's lookup: the entry called name below
\* path p, NoPath when p cannot be searched or holds no such entry
Join(fs, p, name) ==
    IF ReadDirOk(fs, p) THEN ChildNamed(fs, Resolve(fs, p), name) ELSE NoPath

\* stat() of p reports a directory
StatIsDir(fs, p) ==
    /\ PathExists(fs, p)
    /\ \/ p = Root
       \/ fs[p].kind = "dir"
       \/ fs[p].kind = "symlink" /\ PathExists(fs, fs[p].link)

\* libgit2's test of a repository directory: it holds a file HEAD and
\* directories objects and refs
ValidGitDir(fs, p) ==
    /\ ReadDirOk(fs, p)
    /\ LET h == Join(fs, p, "HEAD")
       IN  h # NoPath /\ fs[h].kind = "file" /\ fs[h].ok
    /\ StatIsDir(fs, Join(fs, p, "objects"))
    /\ StatIsDir(fs, Join(fs, p, "refs"))

\* entries that can be added to fs: a free name in an existing directory;
\* the entries added after the first `fixed' ones are numbered directory by
\* directory
NewEntries(fs, fixed) ==
    LET n == Len(fs)
        slots == {pn \in (0..n) \X FreeNames :
                     /\ IsDir(fs, pn[1])
                     /\ ChildNamed(fs, pn[1], pn[2]) = NoPath
                     /\ (n > fixed => fs[n].parent <= pn[1])}
        dirs == {Root} \cup {i \in 1..n : fs[i].kind = "dir"}
        shapes(name) ==
            {[kind |-> "file", len |-> l, ok |-> TRUE, link |-> NoPath] : l \in FileLens}
            \cup {[kind |-> "file", len |-> U64One, ok |-> FALSE, link |-> NoPath]}
            \cup {[kind |-> "dir", len |-> DirLen, ok |-> b, link |-> NoPath] : b \in BOOLEAN}
            \cup {[kind |-> "symlink", len |-> LinkLen, ok |-> TRUE, link |-> t] :
                     t \in dirs \cup {NoPath}}
            \cup {[kind |-> "file", len |-> HeadLen, ok |-> TRUE, link |-> g] :
                     g \in {d \in dirs : name = ".git" /\ ValidGitDir(fs, d)}}
    IN  UNION {{[parent |-> pn[1], name |-> pn[2], kind |-> s.kind, len |-> s.len,
                 ok |-> s.ok, link |-> s.link] : s \in shapes(pn[2])} : pn \in slots}

Entry(parent, name, kind, len, link) ==
    [parent |-> parent, name |-> name, kind |-> kind, len |-> len, ok |-> TRUE,
     link |-> link]

\* a directory `pack' that holds three files of the largest size
BigBase == <<Entry(Root, "pack", "dir", DirLen, NoPath),
             Entry(1, ".git", "file", MaxFileLen, NoPath),
             Entry(1, "objects", "file", MaxFileLen, NoPath),
             Entry(1, "p.pack", "file", MaxFileLen, NoPath)>>

\* the trees that add n entries to the tree base
RECURSIVE FsExtend(_, _)
FsExtend(base, n) ==
    IF n = 0 THEN {base}
    ELSE UNION {{Append(fs, e) : e \in NewEntries(fs, Len(base))} :
                   fs \in FsExtend(base, n - 1)}

RECURSIVE SortedSeq(_)
SortedSeq(S) ==
    IF S = {} THEN <<>>
    ELSE LET m == CHOOSE x \in S : \A y \in S : x <= y
         IN  <<m>> \o SortedSeq(S \ {m})

\* the entries fs::read_dir(path) yields, in enumeration order
read_dir(fs, p) == SortedSeq(ChildrenOf(fs, Resolve(fs, p)))

RECURSIVE dir_size_skip_deep(_, _, _), dir_loop_skip_deep(_, _, _, _, _)
dir_loop_skip_deep(fs, entries, i, skip_name, total) ==
    IF i > Len(entries) THEN total
    ELSE LET e == fs[entries[i]]
         IN  IF skip_name # None /\ e.name = skip_name
                 THEN dir_loop_skip_deep(fs, entries, i + 1, skip_name, total)
             ELSE IF ~(e.kind = "dir" \/ e.ok)
                 THEN dir_loop_skip_deep(fs, entries, i + 1, skip_name, total)
             ELSE IF e.kind = "file"
                 THEN dir_loop_skip_deep(fs, entries, i + 1, skip_name,
                                         saturating_add(total, e.len))
             ELSE IF e.kind = "dir"
                 THEN dir_loop_skip_deep(fs, entries, i + 1, skip_name,
                          saturating_add(total,
                              dir_size_skip_deep(fs, entries[i], skip_name)))
             ELSE dir_loop_skip_deep(fs, entries, i + 1, skip_name, total)

\* dir_size with the exclusion handed down to the recursive calls
dir_size_skip_deep(fs, path, skip_name) ==
    IF ~ReadDirOk(fs, path) THEN U64Zero
    ELSE dir_loop_skip_deep(fs, read_dir(fs, path), 1, skip_name, U64Zero)

RECURSIVE dir_size(_, _, _), dir_loop(_, _, _, _, _)
\* the body of `for entry_result in entries', from entry i on
dir_loop(fs, entries, i, skip_name, total) ==
    IF i > Len(entries) THEN total
    ELSE LET e == fs[entries[i]]
         IN  IF skip_name # None /\ e.name = skip_name
                 THEN dir_loop(fs, entries, i + 1, skip_name, total)
             ELSE IF ~(e.kind = "dir" \/ e.ok)
                 THEN dir_loop(fs, entries, i + 1, skip_name, total)
             ELSE IF e.kind = "file"
                 THEN dir_loop(fs, entries, i + 1, skip_name,
                               saturating_add(total, e.len))
             ELSE IF e.kind = "dir"
                 THEN dir_loop(fs, entries, i + 1, skip_name,
                               saturating_add(total, dir_size(fs, entries[i], None)))
             ELSE dir_loop(fs, entries, i + 1, skip_name, total)

dir_size(fs, path, skip_name) ==
    IF ~ReadDirOk(fs, path) THEN U64Zero
    ELSE dir_loop(fs, read_dir(fs, path), 1, skip_name, U64Zero)

(***************************************************************************)
(* open_repo and get_repo_info.  Repository::discover searches, from the   *)
(* starting directory upwards, for a repository directory and then opens   *)
(* the directory found.  Both steps look in a directory for `.git' (a      *)
(* repository directory, or a file naming one) and then at the directory   *)
(* itself.  Whether the repository is bare is read from its configuration  *)
(* (core.bare); core.worktree is not set.                                  *)
(***************************************************************************)
\* what the library finds at directory d: the repository directory and the
\* directory the work tree is derived from, an error, or nothing
find_repo_at(fs, d) ==
    LET dotgit == Join(fs, d, ".git")
    IN  IF StatIsDir(fs, dotgit) /\ ValidGitDir(fs, dotgit)
            THEN [ok |-> TRUE, found |-> TRUE, git_dir |-> dotgit, workdir |-> d]
        ELSE IF dotgit # NoPath /\ fs[dotgit].kind = "file" /\ fs[dotgit].ok
            THEN IF fs[dotgit].link = NoPath THEN Err("InvalidGitfile")
                 ELSE IF ValidGitDir(fs, fs[dotgit].link)
                     THEN [ok |-> TRUE, found |-> TRUE,
                           git_dir |-> fs[dotgit].link, workdir |-> d]
                 ELSE Err("NotFound")
        ELSE IF ValidGitDir(fs, d)
            THEN [ok |-> TRUE, found |-> TRUE, git_dir |-> d,
                  workdir |-> IF d = Root THEN NoPath ELSE fs[d].parent]
        ELSE [ok |-> TRUE, found |-> FALSE]

\* git_repository_discover: the search from directory d upwards
RECURSIVE git_repository_discover(_, _)
git_repository_discover(fs, d) ==
    LET here == find_repo_at(fs, d)
    IN  IF ~here.ok \/ here.found THEN here
        ELSE IF d = Root THEN Err("NotFound")
        ELSE git_repository_discover(fs, fs[d].parent)

\* Repository::open on the path found: the path is resolved and looked at
\* without a search upwards
open(fs, path) ==
    LET here == find_repo_at(fs, Resolve(fs, path))
    IN  IF ~here.ok \/ here.found THEN here ELSE Err("NotFound")

\* Repository::discover
discover(fs, d) ==
    LET found == git_repository_discover(fs, d)
    IN  IF ~found.ok THEN found ELSE open(fs, found.git_dir)

open_repo(fs, repo_path) ==
    LET is_file == /\ PathExists(fs, repo_path)
                   /\ repo_path # Root
                   /\ fs[repo_path].kind = "file"
                   /\ fs[repo_path].ok
        discover_path == IF is_file THEN fs[repo_path].parent ELSE repo_path
        \* the starting path is resolved first, which fails for a path
        \* that does not lead to anything
        missing == \/ ~PathExists(fs, discover_path)
                   \/ /\ discover_path # Root
                      /\ fs[discover_path].kind = "file"
                      /\ ~fs[discover_path].ok
                   \/ ~PathExists(fs, Resolve(fs, discover_path))
    IN  IF missing THEN Err("NotFound")
        ELSE discover(fs, Resolve(fs, discover_path))

\* detect_lfs_enabled, from what the three reads find
detect_lfs_enabled(cfgFilter, wtAttr, gitAttr) ==
    IF cfgFilter THEN TRUE
    ELSE IF wtAttr THEN TRUE
    ELSE IF gitAttr THEN TRUE
    ELSE FALSE

\* total_size_bytes computed with an addition that wraps around
total_size_wrapping(worktree_size_bytes, git_metadata_size_bytes) ==
    wrapping_add(worktree_size_bytes, git_metadata_size_bytes)

total_size(worktree_size_bytes, git_metadata_size_bytes) ==
    saturating_add(worktree_size_bytes, git_metadata_size_bytes)

get_repo_info(fs, bare, repo_path, cfgFilter, wtAttr, gitAttr) ==
    LET repo == open_repo(fs, repo_path)
    IN  IF ~repo.ok THEN repo
        ELSE
        LET git_dir == repo.git_dir
            worktree_path == IF bare THEN git_dir ELSE repo.workdir
            worktree_size_bytes ==
                IF bare THEN U64Zero ELSE dir_size(fs, worktree_path, ".git")
            git_metadata_size_bytes == dir_size(fs, git_dir, None)
            objects == Join(fs, git_dir, "objects")
        IN  [ok |-> TRUE, kind |-> "repo_info",
             repo_path |-> repo_path,
             git_dir_path |-> git_dir,
             worktree_path |-> worktree_path,
             is_bare |-> bare,
             total_size_bytes |-> total_size(worktree_size_bytes, git_metadata_size_bytes),
             worktree_size_bytes |-> worktree_size_bytes,
             git_metadata_size_bytes |-> git_metadata_size_bytes,
             git_objects_size_bytes |-> dir_size(fs, objects, None),
             git_packfiles_size_bytes |-> dir_size(fs, Join(fs, objects, "pack"), None),
             git_refs_size_bytes |-> dir_size(fs, Join(fs, git_dir, "refs"), None),
             lfs_enabled |-> detect_lfs_enabled(cfgFilter, wtAttr, gitAttr),
             lfs_objects_size_bytes |->
                 dir_size(fs, Join(fs, Join(fs, git_dir, "lfs"), "objects"), None)]

(***************************************************************************)
(* Values the variables take in the specifications that do not use them.   *)
(***************************************************************************)
NoCommit == 0
IdleFs == <<>>
IdleBranches == <<>>
IdleRemotes == <<>>
IdleHead == [kind |-> "symbolic", ref |-> [type |-> "local", name |-> "main"]]
IdleParents == <<>>
IdleMeta == <<>>
IdleTrees == <<>>
IdleStatuses == <<>>

(***************************************************************************)
(* Size specification: a directory tree is drawn, by adding entries to the *)
(* empty tree or, two entries fewer, to a tree that holds three files of   *)
(* the largest size; then dir_size is applied to each of its paths.        *)
(***************************************************************************)
InitSize ==
    /\ fsys \in UNION {FsExtend(<<>>, n) : n \in 0..MaxNodes}
                 \cup UNION {FsExtend(BigBase, n) : n \in 0..(MaxNodes - 2)}
    /\ isBare = FALSE
    /\ branches = IdleBranches
    /\ remotes = IdleRemotes
    /\ HEAD = IdleHead
    /\ workdir = NoCommit
    /\ parents = IdleParents
    /\ cmeta = IdleMeta
    /\ trees = IdleTrees
    /\ statuses = IdleStatuses
    /\ op = NoOp
    /\ result = NoResult

DirSize(path, skip_name) ==
    /\ op' = [name |-> "dir_size", path |-> path, skip_name |-> skip_name]
    /\ result' = [ok |-> TRUE, kind |-> "size",
                  value |-> dir_size(fsys, path, skip_name)]
    /\ UNCHANGED <<fsys, isBare, branches, remotes, HEAD, workdir, parents,
                   cmeta, trees, statuses>>

NextSize ==
    \E path \in 0..Len(fsys), skip_name \in {None} \cup FreeNames :
        DirSize(path, skip_name)

SpecSize == InitSize /\ [][NextSize]_vars

(***************************************************************************)
(* Repository-information specification: a directory tree around a         *)
(* repository skeleton is drawn, then get_repo_info is called on the top   *)
(* directory or on one of its entries.                                     *)
(***************************************************************************)
MaxExtras == 1

\* a working tree with its `.git' directory, the object store empty
WorkBase == <<Entry(Root, ".git", "dir", DirLen, NoPath),
              Entry(1, "HEAD", "file", HeadLen, NoPath),
              Entry(1, "objects", "dir", DirLen, NoPath),
              Entry(1, "refs", "dir", DirLen, NoPath)>>

\* a repository directory on its own
BareBase == <<Entry(Root, "HEAD", "file", HeadLen, NoPath),
              Entry(Root, "objects", "dir", DirLen, NoPath),
              Entry(Root, "refs", "dir", DirLen, NoPath)>>

\* a working tree whose object store is a symlink to a directory outside
\* `.git'
LinkBase == <<Entry(Root, ".git", "dir", DirLen, NoPath),
              Entry(Root, "objects", "dir", DirLen, NoPath),
              Entry(1, "HEAD", "file", HeadLen, NoPath),
              Entry(1, "objects", "symlink", LinkLen, 2),
              Entry(1, "refs", "dir", DirLen, NoPath)>>

\* a working tree whose object store holds a file of the largest size
FullBase == WorkBase \o <<Entry(3, "p.pack", "file", MaxFileLen, NoPath)>>

\* a working tree whose `.git' is a file naming the repository directory
GitfileBase == <<Entry(Root, "store", "dir", DirLen, NoPath),
                 Entry(Root, ".git", "file", HeadLen, 1),
                 Entry(1, "HEAD", "file", HeadLen, NoPath),
                 Entry(1, "objects", "dir", DirLen, NoPath),
                 Entry(1, "refs", "dir", DirLen, NoPath)>>

RepoBases == {<<>>, BareBase, LinkBase, FullBase, GitfileBase}

\* the paths get_repo_info is called with: the top directory or a readable
\* entry of it
RepoPaths(fs) == {Root} \cup {i \in ChildrenOf(fs, Root) : fs[i].ok}

InitInfo ==
    /\ fsys \in UNION {FsExtend(base, n) : base \in RepoBases, n \in 0..MaxExtras}
    /\ isBare \in BOOLEAN
    /\ \A p \in RepoPaths(fsys) :
           open_repo(fsys, p).ok => (isBare \/ open_repo(fsys, p).workdir # NoPath)
    /\ branches = IdleBranches
    /\ remotes = IdleRemotes
    /\ HEAD = IdleHead
    /\ workdir = NoCommit
    /\ parents = IdleParents
    /\ cmeta = IdleMeta
    /\ trees = IdleTrees
    /\ statuses = IdleStatuses
    /\ op = NoOp
    /\ result = NoResult

GetRepoInfo(repo_path, cfgFilter, wtAttr, gitAttr) ==
    /\ op' = [name |-> "get_repo_info", repo_path |-> repo_path]
    /\ result' = get_repo_info(fsys, isBare, repo_path, cfgFilter, wtAttr, gitAttr)
    /\ UNCHANGED <<fsys, isBare, branches, remotes, HEAD, workdir, parents,
                   cmeta, trees, statuses>>

\* what detect_lfs_enabled finds: nothing, the filter in the configuration,
\* the marker in .gitattributes, or the marker in info/attributes
LfsReads == {<<FALSE, FALSE, FALSE>>, <<TRUE, FALSE, FALSE>>,
             <<FALSE, TRUE, FALSE>>, <<FALSE, FALSE, TRUE>>}

NextInfo ==
    \E repo_path \in RepoPaths(fsys), r \in LfsReads :
        GetRepoInfo(repo_path, r[1], r[2], r[3])

SpecInfo == InitInfo /\ [][NextInfo]_vars

(***************************************************************************)
(* Properties of the size aggregator.                                      *)
(***************************************************************************)
\* exact arithmetic on five limbs, for stating sums without a 64-bit limit
Wide(a) == a \o <<0>>

WidePlus(x, y) ==
    LET s1 == x[1] + y[1]
        s2 == x[2] + y[2] + (s1 \div LimbBase)
        s3 == x[3] + y[3] + (s2 \div LimbBase)
        s4 == x[4] + y[4] + (s3 \div LimbBase)
        s5 == x[5] + y[5] + (s4 \div LimbBase)
    IN  <<s1 % LimbBase, s2 % LimbBase, s3 % LimbBase, s4 % LimbBase, s5>>

RECURSIVE WideSumOfLens(_, _)
WideSumOfLens(fs, S) ==
    IF S = {} THEN Wide(U64Zero)
    ELSE LET i == CHOOSE x \in S : TRUE
         IN  WidePlus(Wide(fs[i].len), WideSumOfLens(fs, S \ {i}))

Capped(w) == IF w[5] > 0 THEN U64Max ELSE SubSeq(w, 1, 4)

\* the directory the path D stands for: D, or what D links to
Dir(fs, D) == IF D \in 1..Len(fs) /\ fs[D].kind = "symlink" THEN fs[D].link ELSE D

\* d is a readable directory and so is every directory above it
RECURSIVE Listable(_, _)
Listable(fs, d) ==
    \/ d = Root
    \/ /\ d \in 1..Len(fs)
       /\ fs[d].kind = "dir" /\ fs[d].ok
       /\ Listable(fs, fs[d].parent)

\* the path D can be followed from the top directory down to a directory
\* that can be listed
Opens(fs, D) ==
    /\ D = Root \/ (D \in 1..Len(fs) /\ Listable(fs, fs[D].parent))
    /\ Listable(fs, Dir(fs, D))

\* the direct child of directory d on the way down to entry i, NoPath if i
\* is not under d or a directory in between cannot be listed
RECURSIVE TopChild(_, _, _)
TopChild(fs, i, d) ==
    IF i = Root \/ i = NoPath THEN NoPath
    ELSE IF fs[i].parent = d THEN i
    ELSE IF Listable(fs, fs[i].parent) /\ fs[i].parent # Root
        THEN TopChild(fs, fs[i].parent, d)
    ELSE NoPath

\* entries reachable from D by listing readable directories, the direct
\* child called E left out
Reached(fs, D, E) ==
    IF ~Opens(fs, D) THEN {}
    ELSE {i \in 1..Len(fs) :
             /\ TopChild(fs, i, Dir(fs, D)) # NoPath
             /\ (E = None \/ fs[TopChild(fs, i, Dir(fs, D))].name # E)}

RegularFiles(fs, D, E) == {i \in Reached(fs, D, E) : fs[i].kind = "file" /\ fs[i].ok}
Symlinks(fs, D, E) == {i \in Reached(fs, D, E) : fs[i].kind = "symlink"}

\* C1 as stated: dir_size(D, E) is the sum of the sizes of the regular
\* files under D, the direct child E left out, plus the link size of every
\* symlink under D.
C1_SymlinksCounted ==
    op.name = "dir_size" =>
        Wide(result.value) =
            WideSumOfLens(fsys, RegularFiles(fsys, op.path, op.skip_name)
                                \cup Symlinks(fsys, op.path, op.skip_name))

\* C1 (amended): dir_size(D, E) is the sum, capped at the u64 maximum, of
\* the sizes of the readable regular files under D at any depth, the direct
\* child of D named E left out (a deeper entry named E is counted); D may
\* itself be a symlink to a directory, but symlinks met under D are not
\* followed and contribute nothing, and unreadable entries and
\* subdirectories contribute nothing; the result is 0 when D cannot be
\* listed, as when a directory above it is unreadable.
C1_DirSizeSum ==
    op.name = "dir_size" =>
        result.value =
            Capped(WideSumOfLens(fsys, RegularFiles(fsys, op.path, op.skip_name)))

\* a call that left out a direct child E while counting a deeper file named
\* E, the sizes counted adding up to more than the u64 maximum
C1_Witness ==
    /\ op.name = "dir_size"
    /\ op.skip_name # None
    /\ Join(fsys, op.path, op.skip_name) # NoPath
    /\ \E i \in RegularFiles(fsys, op.path, op.skip_name) :
           fsys[i].name = op.skip_name /\ fsys[i].parent # Dir(fsys, op.path)
    /\ WideSumOfLens(fsys, RegularFiles(fsys, op.path, op.skip_name))[5] > 0
    /\ result.value = U64Max

\* C8: on a bare repository worktree_size_bytes is 0 and total_size_bytes
\* equals git_metadata_size_bytes; in general total_size_bytes is the sum of
\* the two, capped at the u64 maximum.
C8_RepoInfoTotal ==
    (op.name = "get_repo_info" /\ result.ok) =>
        /\ result.is_bare = isBare
        /\ isBare => /\ result.worktree_size_bytes = U64Zero
                     /\ result.total_size_bytes = result.git_metadata_size_bytes
        /\ result.total_size_bytes =
               Capped(WidePlus(Wide(result.worktree_size_bytes),
                               Wide(result.git_metadata_size_bytes)))
        /\ result.worktree_size_bytes =
               IF isBare THEN U64Zero
               ELSE Capped(WideSumOfLens(fsys,
                        RegularFiles(fsys, result.worktree_path, ".git")))
        /\ result.git_metadata_size_bytes =
               Capped(WideSumOfLens(fsys, RegularFiles(fsys, result.git_dir_path, None)))

\* a non-bare repository whose two sizes add up to more than the maximum
C8_Witness ==
    /\ op.name = "get_repo_info"
    /\ result.ok
    /\ ~isBare
    /\ result.worktree_size_bytes = MaxFileLen
    /\ result.git_metadata_size_bytes = saturating_add(MaxFileLen, HeadLen)
    /\ result.total_size_bytes = U64Max

(***************************************************************************)
(* References.  Local branches are direct references refs/heads/<name> to  *)
(* a commit; remote-tracking branches are refs/remotes/<name>.  HEAD is    *)
(* symbolic (it names a reference, which may not exist: an unborn branch)  *)
(* or detached (it holds a commit id).                                     *)
(***************************************************************************)
BranchNames == {"dev", "main", "origin/main"}
RemoteNames == {"origin/main"}
NameOrder == <<"dev", "main", "origin/main">>
RefCommits == {1, 2}

LocalRef(name) == [type |-> "local", name |-> name]
RemoteRef(name) == [type |-> "remote", name |-> name]
Symbolic(ref) == [kind |-> "symbolic", ref |-> ref]
Detached(c) == [kind |-> "detached", target |-> c]

RefExists(br, rem, ref) ==
    IF ref.type = "local" THEN ref.name \in DOMAIN br ELSE ref.name \in DOMAIN rem

\* Repository::head(): the reference HEAD resolves to, or an error for an
\* unborn branch; a detached HEAD resolves to the reference HEAD itself
repository_head(br, rem, head) ==
    IF head.kind = "detached" THEN [ok |-> TRUE, ref |-> [type |-> "HEAD", name |-> "HEAD"]]
    ELSE IF RefExists(br, rem, head.ref) THEN [ok |-> TRUE, ref |-> head.ref]
    ELSE [ok |-> FALSE]

\* a branch test that compares the short names only
is_head_by_shorthand(br, rem, head, ref) ==
    LET h == repository_head(br, rem, head)
    IN  h.ok /\ h.ref.name = ref.name

\* Branch::is_head(): the reference is a local branch and it is the
\* reference HEAD resolves to
is_head(br, rem, head, ref) ==
    IF ref.type # "local" THEN FALSE
    ELSE LET h == repository_head(br, rem, head)
         IN  IF ~h.ok THEN FALSE ELSE h.ref = ref

\* Repository::branches(Some(t)): the branches of one type, in the store's
\* enumeration order
branches_of(br, rem, type) ==
    IF type = "local" THEN SelectSeq(NameOrder, LAMBDA n : n \in DOMAIN br)
    ELSE SelectSeq(NameOrder, LAMBDA n : n \in DOMAIN rem)

get_branches(br, rem, head) ==
    LET locals == branches_of(br, rem, "local")
        remote == branches_of(br, rem, "remote")
    IN  [ok |-> TRUE, kind |-> "branches",
         value |->
             [i \in 1..Len(locals) |->
                 [name |-> locals[i],
                  is_current |-> is_head(br, rem, head, LocalRef(locals[i])),
                  is_remote |-> FALSE]]
             \o
             [i \in 1..Len(remote) |->
                 [name |-> remote[i],
                  is_current |-> is_head(br, rem, head, RemoteRef(remote[i])),
                  is_remote |-> TRUE]]]

(***************************************************************************)
(* checkout_branch.  `fail' is the step of the call that the store makes   *)
(* fail: checkout_tree (a conflict with the working directory), set_head,  *)
(* or none.  The outcome is the error or success returned and the new HEAD *)
(* and working directory.                                                  *)
(***************************************************************************)
FailPoints == {"none", "checkout_tree", "set_head"}

\* checkout_branch that repoints HEAD without looking the branch up first
checkout_branch_no_lookup(br, head, wd, branch_name, fail) ==
    IF branch_name \notin DOMAIN br
        THEN [result |-> Err("NotFound"),
              HEAD |-> Symbolic(LocalRef(branch_name)), workdir |-> wd]
    ELSE IF fail = "checkout_tree"
        THEN [result |-> Err("Conflict"), HEAD |-> head, workdir |-> wd]
    ELSE IF fail = "set_head"
        THEN [result |-> Err("IOFailure"), HEAD |-> head, workdir |-> br[branch_name]]
    ELSE [result |-> [ok |-> TRUE, kind |-> "unit"],
          HEAD |-> Symbolic(LocalRef(branch_name)), workdir |-> br[branch_name]]

\* checkout_branch with set_head called before checkout_tree
checkout_branch_head_first(br, head, wd, branch_name, fail) ==
    IF branch_name \notin DOMAIN br
        THEN [result |-> Err("NotFound"), HEAD |-> head, workdir |-> wd]
    ELSE IF fail = "set_head"
        THEN [result |-> Err("IOFailure"), HEAD |-> head, workdir |-> wd]
    ELSE IF fail = "checkout_tree"
        THEN [result |-> Err("Conflict"),
              HEAD |-> Symbolic(LocalRef(branch_name)), workdir |-> wd]
    ELSE [result |-> [ok |-> TRUE, kind |-> "unit"],
          HEAD |-> Symbolic(LocalRef(branch_name)), workdir |-> br[branch_name]]

checkout_branch(br, head, wd, branch_name, fail) ==
    IF branch_name \notin DOMAIN br
        \* repo.find_branch(branch_name, BranchType::Local)?
        THEN [result |-> Err("NotFound"), HEAD |-> head, workdir |-> wd]
    ELSE IF fail = "checkout_tree"
        \* repo.checkout_tree(object, None)?
        THEN [result |-> Err("Conflict"), HEAD |-> head, workdir |-> wd]
    ELSE IF fail = "set_head"
        \* repo.set_head(..)?
        THEN [result |-> Err("IOFailure"), HEAD |-> head, workdir |-> br[branch_name]]
    ELSE [result |-> [ok |-> TRUE, kind |-> "unit"],
          HEAD |-> Symbolic(LocalRef(branch_name)), workdir |-> br[branch_name]]

\* the commit HEAD peels to, NoCommit when it does not resolve
HeadCommit(br, rem, head) ==
    IF head.kind = "detached" THEN head.target
    ELSE IF ~RefExists(br, rem, head.ref) THEN NoCommit
    ELSE IF head.ref.type = "local" THEN br[head.ref.name]
    ELSE rem[head.ref.name]

AllBranchMaps == UNION {[S -> RefCommits] : S \in SUBSET BranchNames}

AllRemoteMaps == UNION {[S -> RefCommits] : S \in SUBSET RemoteNames}

AllHeads ==
    {Symbolic(LocalRef(n)) : n \in BranchNames}
    \cup {Symbolic(RemoteRef(n)) : n \in RemoteNames}
    \cup {Detached(c) : c \in RefCommits}

InitRepo ==
    /\ fsys = IdleFs
    /\ isBare = FALSE
    /\ branches \in AllBranchMaps
    /\ remotes \in AllRemoteMaps
    /\ HEAD \in AllHeads
    /\ workdir = HeadCommit(branches, remotes, HEAD)
    /\ parents = IdleParents
    /\ cmeta = IdleMeta
    /\ trees = IdleTrees
    /\ statuses = IdleStatuses
    /\ op = NoOp
    /\ result = NoResult

GetBranches ==
    /\ op' = [name |-> "get_branches"]
    /\ result' = get_branches(branches, remotes, HEAD)
    /\ UNCHANGED <<fsys, isBare, branches, remotes, HEAD, workdir, parents,
                   cmeta, trees, statuses>>

CheckoutBranch(branch_name, fail) ==
    LET out == checkout_branch(branches, HEAD, workdir, branch_name, fail)
    IN  /\ op' = [name |-> "checkout_branch", branch_name |-> branch_name]
        /\ result' = out.result
        /\ HEAD' = out.HEAD
        /\ workdir' = out.workdir
        /\ UNCHANGED <<fsys, isBare, branches, remotes, parents, cmeta, trees,
                       statuses>>

NextRepo ==
    \/ GetBranches
    \/ \E branch_name \in BranchNames, fail \in FailPoints :
           CheckoutBranch(branch_name, fail)

SpecRepo == InitRepo /\ [][NextRepo]_vars

(***************************************************************************)
(* Properties of the reference catalog and of checkout.                    *)
(***************************************************************************)
\* C3: a checkout of a name that is not a local branch fails with NotFound
\* and leaves HEAD and the working directory as they were.
C3_CheckoutMissing ==
    [][(op'.name = "checkout_branch" /\ op'.branch_name \notin DOMAIN branches)
          => /\ result' = Err("NotFound")
             /\ HEAD' = HEAD
             /\ workdir' = workdir]_vars

\* a failed checkout of a missing name in a repository that has branches
\* and a resolved HEAD
C3_Witness ==
    /\ op.name = "checkout_branch"
    /\ op.branch_name \notin DOMAIN branches
    /\ result = Err("NotFound")
    /\ DOMAIN branches # {}
    /\ HeadCommit(branches, remotes, HEAD) # NoCommit

CurrentEntries(list) == {i \in 1..Len(list) : list[i].is_current}

HeadOnLocalBranch ==
    HEAD.kind = "symbolic" /\ HEAD.ref.type = "local" /\ HEAD.ref.name \in DOMAIN branches

HeadDetachedOrUnborn ==
    HEAD.kind = "detached" \/ ~RefExists(branches, remotes, HEAD.ref)

\* C4: a listing has exactly one current entry, the local branch HEAD points
\* at, when HEAD points at a local branch, and none when HEAD is detached or
\* unborn; remote-tracking entries are never current and local entries come
\* before remote ones.
C4_OneCurrentBranch ==
    (op.name = "get_branches") =>
        LET list == result.value
        IN  /\ HeadOnLocalBranch =>
                \E i \in 1..Len(list) :
                    /\ CurrentEntries(list) = {i}
                    /\ list[i].name = HEAD.ref.name
                    /\ ~list[i].is_remote
            /\ HeadDetachedOrUnborn => CurrentEntries(list) = {}
            /\ \A i \in 1..Len(list) : list[i].is_remote => ~list[i].is_current
            /\ \A i \in 1..Len(list), j \in 1..Len(list) :
                   (list[i].is_remote /\ ~list[j].is_remote) => j < i
            /\ \A n \in DOMAIN branches :
                   \E i \in 1..Len(list) : list[i].name = n /\ ~list[i].is_remote
            /\ \A n \in DOMAIN remotes :
                   \E i \in 1..Len(list) : list[i].name = n /\ list[i].is_remote

\* a listing with local and remote entries of the same name, taken while
\* HEAD is on that local branch
C4_Witness ==
    /\ op.name = "get_branches"
    /\ HeadOnLocalBranch
    /\ HEAD.ref.name \in DOMAIN remotes
    /\ Len(result.value) >= 3
    /\ Cardinality(CurrentEntries(result.value)) = 1

\* C10: every step that moves HEAD is a successful checkout that has updated
\* the working directory to the branch's commit and points HEAD at
\* refs/heads/<branch_name>; a checkout that fails leaves HEAD where it was.
C10_HeadAfterWorkdir ==
    [][/\ HEAD' # HEAD =>
              /\ op'.name = "checkout_branch"
              /\ result'.ok
              /\ op'.branch_name \in DOMAIN branches
              /\ workdir' = branches[op'.branch_name]
       /\ (op'.name = "checkout_branch" /\ result'.ok) =>
              /\ HEAD' = Symbolic(LocalRef(op'.branch_name))
              /\ workdir' = branches[op'.branch_name]
       /\ (op'.name = "checkout_branch" /\ ~result'.ok) => HEAD' = HEAD]_vars

\* a checkout whose working-directory update went through and whose set_head
\* failed: the working directory moved, HEAD did not
C10_Witness ==
    /\ op.name = "checkout_branch"
    /\ result = Err("IOFailure")
    /\ HeadCommit(branches, remotes, HEAD) # NoCommit
    /\ workdir = branches[op.branch_name]
    /\ workdir # HeadCommit(branches, remotes, HEAD)


(***************************************************************************)
(* get_commits.  The commit graph is `parents' (commit id -> parent ids)   *)
(* and `cmeta' (commit id -> committer time, author time, author name and  *)
(* message).  Repository::revwalk() with no sorting mode set hands out     *)
(* commits from a list kept in committer-time order: the pushed commit     *)
(* first, and the unseen parents of each commit handed out inserted by     *)
(* date.  The `date' of an entry is the author time, printed in decimal.   *)
(***************************************************************************)
CommitLimit == 50

LimitReachedOffByOne(n) == n > CommitLimit

\* if commits.len() >= 50 { break; }
LimitReached(n) == n >= CommitLimit

\* git_commit_list_insert_by_date: before the first listed commit that is
\* older than item
RECURSIVE insert_by_date(_, _, _)
insert_by_date(meta, list, item) ==
    IF list = <<>> THEN <<item>>
    ELSE IF meta[Head(list)].time < meta[item].time THEN <<item>> \o list
    ELSE <<Head(list)>> \o insert_by_date(meta, Tail(list), item)

\* add_parents_to_list, from parent i of commit on
RECURSIVE add_parents_to_list(_, _, _, _, _, _)
add_parents_to_list(par, meta, commit, i, list, seen) ==
    IF i > Len(par[commit]) THEN [list |-> list, seen |-> seen]
    ELSE LET p == par[commit][i]
         IN  IF p \in seen
                 THEN add_parents_to_list(par, meta, commit, i + 1, list, seen)
                 ELSE add_parents_to_list(par, meta, commit, i + 1,
                                          insert_by_date(meta, list, p),
                                          seen \cup {p})

\* format!("{}", seconds): the decimal digits of an integer
Digits == <<"0", "1", "2", "3", "4", "5", "6", "7", "8", "9">>

RECURSIVE format_nat(_)
format_nat(n) ==
    IF n < 10 THEN <<Digits[n + 1]>>
    ELSE format_nat(n \div 10) \o <<Digits[(n % 10) + 1]>>

format_seconds(n) == IF n < 0 THEN <<"-">> \o format_nat(0 - n) ELSE format_nat(n)

\* str::trim: leading and trailing white space removed.  A message is its
\* sequence of code points; white space is every code point with the
\* Unicode property White_Space.
WhiteSpace ==
    (9..13) \cup {32, 133, 160, 5760} \cup (8192..8202)
            \cup {8232, 8233, 8239, 8287, 12288}

RECURSIVE trim_start(_)
trim_start(s) ==
    IF s # <<>> /\ Head(s) \in WhiteSpace THEN trim_start(Tail(s)) ELSE s

RECURSIVE trim_end(_)
trim_end(s) ==
    IF s # <<>> /\ s[Len(s)] \in WhiteSpace THEN trim_end(SubSeq(s, 1, Len(s) - 1))
    ELSE s

trim(s) == trim_end(trim_start(s))

\* Option<&str>::unwrap_or(""): a name or message that is not UTF-8 reads
\* as None
unwrap_or_empty(x) == IF x = None THEN <<>> ELSE x

GitCommit(par, meta, oid) ==
    [hash |-> oid,
     author |-> unwrap_or_empty(meta[oid].author),
     date |-> format_seconds(meta[oid].author_time),
     message |-> trim(unwrap_or_empty(meta[oid].message)),
     parents |-> par[oid]]

\* for oid in revwalk { ... commits.push(..); if commits.len() >= 50 { break; } }
RECURSIVE revwalk_loop(_, _, _, _, _)
revwalk_loop(par, meta, list, seen, commits) ==
    IF list = <<>> THEN commits
    ELSE LET oid == Head(list)
             st == add_parents_to_list(par, meta, oid, 1, Tail(list), seen)
             pushed == Append(commits, GitCommit(par, meta, oid))
         IN  IF LimitReached(Len(pushed)) THEN pushed
             ELSE revwalk_loop(par, meta, st.list, st.seen, pushed)

get_commits(par, meta, br, rem, head) ==
    LET commit == HeadCommit(br, rem, head)
    IN  IF commit = NoCommit THEN Err("UnbornBranch")
        ELSE [ok |-> TRUE, kind |-> "commits",
              value |-> revwalk_loop(par, meta, <<commit>>, {commit}, <<>>)]

(***************************************************************************)
(* Commit graphs: a linear history of TailLen commits, and on top of it up *)
(* to MaxTop commits with any zero, one or two parents among the commits   *)
(* before them in the top and the tip of the linear history.  A commit of  *)
(* the top carries a committer time later than the linear history or, with *)
(* a skewed clock, earlier.  A commit was authored when it was committed,  *)
(* or 10 or 20 seconds before; every second author name and every third    *)
(* message is not UTF-8, and every third message has white space (a        *)
(* carriage return, a no-break space, a line separator, a CRLF line end)   *)
(* around it and a space inside.                                           *)
(***************************************************************************)
MaxTop == 3
TailLens == {0, 49}

ParentLists(cands) ==
    {<<>>} \cup {<<a>> : a \in cands}
           \cup {<<ab[1], ab[2]>> : ab \in {x \in cands \X cands : x[1] # x[2]}}

TailParents(t) == [i \in 1..t |-> IF i = 1 THEN <<>> ELSE <<i - 1>>]
AuthorNames == <<"alice", None>>
Messages == << <<102, 105, 120>>,
              <<13, 160, 102, 105, 32, 120, 8232, 13, 10>>,
              None >>

\* what commit c, committed at `time', carries
Meta(c, time) ==
    [time |-> time,
     author_time |-> time - 10 * (c % 3),
     author |-> AuthorNames[(c % 2) + 1],
     message |-> Messages[(c % 3) + 1]]

TailMeta(t) == [i \in 1..t |-> Meta(i, i)]

\* the k commits t+1 .. t+k on top of a linear history of t commits
RECURSIVE GraphsOnTop(_, _)
GraphsOnTop(t, k) ==
    IF k = 0 THEN {[parents |-> <<>>, meta |-> <<>>]}
    ELSE LET n == t + k - 1
             cands == (IF t > 0 THEN {t} ELSE {}) \cup ((t + 1)..n)
         IN  {[parents |-> Append(g.parents, ps),
               meta |-> Append(g.meta, Meta(t + k, tm))] :
                  g \in GraphsOnTop(t, k - 1),
                  ps \in ParentLists(cands),
                  tm \in {0, t + 1}}

InitWalk ==
    /\ fsys = IdleFs
    /\ isBare = FALSE
    /\ \E t \in TailLens, k \in 0..MaxTop :
           \E g \in GraphsOnTop(t, k) :
               /\ parents = TailParents(t) \o g.parents
               /\ cmeta = TailMeta(t) \o g.meta
               /\ branches = IF t + k = 0 THEN IdleBranches
                             ELSE [n \in {"main"} |-> t + k]
    /\ remotes = IdleRemotes
    /\ HEAD \in {Symbolic(LocalRef("main"))}
                \cup {Detached(c) : c \in {Len(parents)} \ {0}}
    /\ workdir = HeadCommit(branches, remotes, HEAD)
    /\ trees = IdleTrees
    /\ statuses = IdleStatuses
    /\ op = NoOp
    /\ result = NoResult

GetCommits ==
    /\ op' = [name |-> "get_commits"]
    /\ result' = get_commits(parents, cmeta, branches, remotes, HEAD)
    /\ UNCHANGED <<fsys, isBare, branches, remotes, HEAD, workdir, parents,
                   cmeta, trees, statuses>>

NextWalk == GetCommits

SpecWalk == InitWalk /\ [][NextWalk]_vars

(***************************************************************************)
(* Properties of the commit walk.                                          *)
(***************************************************************************)
\* a is reachable from c by one or more parent links
RECURSIVE IsAncestor(_, _, _)
IsAncestor(par, a, c) ==
    \E i \in 1..Len(par[c]) :
        par[c][i] = a \/ (par[c][i] > a /\ IsAncestor(par, a, par[c][i]))

ParentSet(par, c) == {par[c][i] : i \in 1..Len(par[c])}

\* C2 as stated: at most 50 entries, and every entry after the first is an
\* ancestor of the entry right before it.
C2_EachAncestorOfPrevious ==
    (op.name = "get_commits" /\ result.ok) =>
        LET list == result.value
        IN  /\ Len(list) <= CommitLimit
            /\ \A i \in 2..Len(list) :
                   IsAncestor(parents, list[i].hash, list[i - 1].hash)

NoClockSkew(par, meta) ==
    \A c \in 1..Len(par) :
        \A i \in 1..Len(par[c]) : meta[par[c][i]].time <= meta[c].time

\* C2 (amended): at most 50 entries; the first entry is HEAD's commit and
\* every later entry is a parent of some earlier entry (so an ancestor of
\* the first entry), listed once; where no listed commit is a merge each
\* entry is the parent of the entry right before it; where no commit was
\* committed before a parent of it the entries are in order of committer
\* time, most recent first (the `date' of an entry is the author time,
\* which need not follow that order); a walk that stopped short of 50 has
\* listed every ancestor.
C2_WalkFromHead ==
    (op.name = "get_commits" /\ result.ok) =>
        LET list == result.value
            hashes == {list[i].hash : i \in 1..Len(list)}
        IN  /\ Len(list) <= CommitLimit
            /\ Len(list) >= 1
            /\ list[1].hash = HeadCommit(branches, remotes, HEAD)
            /\ \A i \in 2..Len(list) :
                   \E j \in 1..(i - 1) :
                       list[i].hash \in ParentSet(parents, list[j].hash)
            /\ Cardinality(hashes) = Len(list)
            /\ (\A i \in 1..Len(list) : Len(parents[list[i].hash]) <= 1) =>
                   \A i \in 2..Len(list) :
                       parents[list[i - 1].hash] = <<list[i].hash>>
            /\ \A i \in 1..Len(list) : list[i].parents = parents[list[i].hash]
            /\ NoClockSkew(parents, cmeta) =>
                   \A i \in 2..Len(list) :
                       cmeta[list[i].hash].time <= cmeta[list[i - 1].hash].time
            /\ Len(list) < CommitLimit =>
                   \A c \in hashes : ParentSet(parents, c) \subseteq hashes

\* a walk cut at 50 entries that started at a merge commit
C2_Witness ==
    /\ op.name = "get_commits"
    /\ result.ok
    /\ Len(result.value) = CommitLimit
    /\ Len(parents) > CommitLimit
    /\ Len(result.value[1].parents) = 2


(***************************************************************************)
(* The diff engine.  `trees' gives for each commit the blob stored at each *)
(* path of its tree, or Absent.  A path is its sequence of components, a   *)
(* blob a sequence of bytes and a String a sequence of code points.        *)
(***************************************************************************)
Absent == <<-1>>
PathOrder == << <<"a">>, <<"d", "x">> >>
TreePaths == {PathOrder[i] : i \in 1..Len(PathOrder)}
QueryPaths == TreePaths \cup { <<"d">>, <<"zz">> }
Blobs == { <<104, 105>>, <<195, 169, 255, 195>> }
AllTrees == [TreePaths -> Blobs \cup {Absent}]
NoTree == <<>>
Malformed == -1

Replacement == 65533

\* String::from_utf8_lossy over bytes below 0xE0: an ASCII byte is its own
\* code point, a two-byte sequence is decoded, and any other byte becomes
\* U+FFFD
RECURSIVE from_utf8_lossy(_)
from_utf8_lossy(bytes) ==
    IF bytes = <<>> THEN <<>>
    ELSE LET b == Head(bytes)
         IN  IF b < 128 THEN <<b>> \o from_utf8_lossy(Tail(bytes))
             ELSE IF /\ b >= 194 /\ b <= 223
                     /\ Len(bytes) >= 2
                     /\ bytes[2] >= 128 /\ bytes[2] <= 191
                 THEN <<(b - 192) * 64 + (bytes[2] - 128)>>
                          \o from_utf8_lossy(Tail(Tail(bytes)))
             ELSE <<Replacement>> \o from_utf8_lossy(Tail(bytes))

\* read_file_from_tree that propagates a missing path as an error
read_file_from_tree_strict(tree, file_path) ==
    IF file_path \notin DOMAIN tree \/ tree[file_path] = Absent
        THEN [ok |-> FALSE, some |-> FALSE, value |-> <<>>]
    ELSE [ok |-> TRUE, some |-> TRUE, value |-> from_utf8_lossy(tree[file_path])]

\* read_file_from_tree: Ok(None) when the tree has no entry at the path
read_file_from_tree(tree, file_path) ==
    IF file_path \notin DOMAIN tree \/ tree[file_path] = Absent
        THEN [ok |-> TRUE, some |-> FALSE, value |-> <<>>]
    ELSE [ok |-> TRUE, some |-> TRUE, value |-> from_utf8_lossy(tree[file_path])]

\* Oid::from_str(commit_hash)? ; repo.find_commit(oid)?
FindCommit(par, commit_hash) ==
    IF commit_hash = Malformed THEN Err("Malformed")
    ELSE IF commit_hash \notin 1..Len(par) THEN Err("NotFound")
    ELSE [ok |-> TRUE, kind |-> "commit", id |-> commit_hash]

parent_tree_last(par, tr, c) ==
    IF Len(par[c]) > 0 THEN tr[par[c][Len(par[c])]] ELSE NoTree

\* if commit.parent_count() > 0 { Some(commit.parent(0)?.tree()?) } else { None }
parent_tree(par, tr, c) ==
    IF Len(par[c]) > 0 THEN tr[par[c][1]] ELSE NoTree

EntryAt(tree, path) == IF tree = NoTree THEN Absent ELSE tree[path]

\* a pathspec entry matches the path itself and every path below it
IsPrefix(p, q) == Len(p) <= Len(q) /\ SubSeq(q, 1, Len(p)) = p
PathspecMatches(pathspec, path) == pathspec = None \/ IsPrefix(pathspec, path)

\* the delta of one path between two trees
DeltaOf(old_tree, new_tree, path) ==
    LET o == EntryAt(old_tree, path)
        n == EntryAt(new_tree, path)
    IN  [status |-> IF o = Absent THEN "Added"
                    ELSE IF n = Absent THEN "Deleted"
                    ELSE "Modified",
         old_file |-> [path |-> path],
         new_file |-> [path |-> path]]

\* repo.diff_tree_to_tree(old, new, opts): one delta for every path whose
\* entry differs and that the pathspec matches, in path order
diff_tree_to_tree(old_tree, new_tree, pathspec) ==
    LET changed == SelectSeq(PathOrder,
                        LAMBDA p : /\ EntryAt(old_tree, p) # EntryAt(new_tree, p)
                                   /\ PathspecMatches(pathspec, p))
    IN  [i \in 1..Len(changed) |-> DeltaOf(old_tree, new_tree, changed[i])]

\* match delta.status() { ... }
DeltaStatusName(status) ==
    CASE status = "Added" -> "added"
      [] status = "Deleted" -> "deleted"
      [] status = "Modified" -> "modified"
      [] status = "Renamed" -> "renamed"
      [] status = "Copied" -> "copied"
      [] status = "Typechange" -> "typechange"
      [] OTHER -> "unknown"

get_commit_changes(par, tr, commit_hash) ==
    LET found == FindCommit(par, commit_hash)
    IN  IF ~found.ok THEN found
        ELSE LET current_tree == tr[found.id]
                 diff == diff_tree_to_tree(parent_tree(par, tr, found.id),
                                           current_tree, None)
             IN  [ok |-> TRUE, kind |-> "changes",
                  value |-> [i \in 1..Len(diff) |->
                                [path |-> diff[i].new_file.path,
                                 status |-> DeltaStatusName(diff[i].status)]]]

\* get_commit_file_diff reading both sides from the commit's own tree
get_commit_file_diff_same_tree(par, tr, commit_hash, file_path) ==
    LET found == FindCommit(par, commit_hash)
    IN  IF ~found.ok THEN found
        ELSE LET current_tree == tr[found.id]
                 old_tree == parent_tree(par, tr, found.id)
                 diff == diff_tree_to_tree(old_tree, current_tree, file_path)
                 original == IF old_tree # NoTree /\ Len(diff) > 0
                             THEN read_file_from_tree(current_tree, diff[1].old_file.path)
                             ELSE [ok |-> TRUE, some |-> FALSE, value |-> <<>>]
                 modified == IF Len(diff) > 0
                             THEN read_file_from_tree(current_tree, diff[1].new_file.path)
                             ELSE [ok |-> TRUE, some |-> FALSE, value |-> <<>>]
             IN  IF ~original.ok \/ ~modified.ok THEN Err("NotFound")
                 ELSE [ok |-> TRUE, kind |-> "file_diff",
                       original |-> original.value, modified |-> modified.value]

get_commit_file_diff(par, tr, commit_hash, file_path) ==
    LET found == FindCommit(par, commit_hash)
    IN  IF ~found.ok THEN found
        ELSE LET current_tree == tr[found.id]
                 old_tree == parent_tree(par, tr, found.id)
                 diff == diff_tree_to_tree(old_tree, current_tree, file_path)
                 \* (Some(tree), Some(path)) => read_file_from_tree(..)?.unwrap_or_default()
                 original == IF old_tree # NoTree /\ Len(diff) > 0
                             THEN read_file_from_tree(old_tree, diff[1].old_file.path)
                             ELSE [ok |-> TRUE, some |-> FALSE, value |-> <<>>]
                 modified == IF Len(diff) > 0
                             THEN read_file_from_tree(current_tree, diff[1].new_file.path)
                             ELSE [ok |-> TRUE, some |-> FALSE, value |-> <<>>]
             IN  IF ~original.ok \/ ~modified.ok THEN Err("NotFound")
                 ELSE [ok |-> TRUE, kind |-> "file_diff",
                       original |-> original.value, modified |-> modified.value]

(***************************************************************************)
(* Diff specification: three commits, the third with any parents among the *)
(* first two, each with any tree.                                          *)
(***************************************************************************)
DiffGraphs ==
    {<< <<>>, p2, p3 >> :
        p2 \in {<<>>, <<1>>},
        p3 \in {<<>>, <<1>>, <<2>>, <<1, 2>>, <<2, 1>>}}

CommitHashes == (1..4) \cup {Malformed}

InitDiff ==
    /\ fsys = IdleFs
    /\ isBare = FALSE
    /\ branches = [n \in {"main"} |-> 3]
    /\ remotes = IdleRemotes
    /\ HEAD = Symbolic(LocalRef("main"))
    /\ workdir = 3
    /\ parents \in DiffGraphs
    /\ cmeta = TailMeta(3)
    /\ trees \in [1..3 -> AllTrees]
    /\ statuses = IdleStatuses
    /\ op = NoOp
    /\ result = NoResult

GetCommitChanges(commit_hash) ==
    /\ op' = [name |-> "get_commit_changes", commit_hash |-> commit_hash]
    /\ result' = get_commit_changes(parents, trees, commit_hash)
    /\ UNCHANGED <<fsys, isBare, branches, remotes, HEAD, workdir, parents,
                   cmeta, trees, statuses>>

GetCommitFileDiff(commit_hash, file_path) ==
    /\ op' = [name |-> "get_commit_file_diff", commit_hash |-> commit_hash,
              file_path |-> file_path]
    /\ result' = get_commit_file_diff(parents, trees, commit_hash, file_path)
    /\ UNCHANGED <<fsys, isBare, branches, remotes, HEAD, workdir, parents,
                   cmeta, trees, statuses>>

NextDiff ==
    \/ \E commit_hash \in CommitHashes : GetCommitChanges(commit_hash)
    \/ \E commit_hash \in CommitHashes, file_path \in QueryPaths :
           GetCommitFileDiff(commit_hash, file_path)

SpecDiff == InitDiff /\ [][NextDiff]_vars

(***************************************************************************)
(* Properties of the diff engine.                                          *)
(***************************************************************************)
ValidHash(h) == h \in 1..Len(parents)
HasParent(c) == Len(parents[c]) > 0
FirstParent(c) == parents[c][1]

\* commit c changes the content of P, present on both sides, and nothing else
OnlyModifies(c, P) ==
    /\ HasParent(c)
    /\ trees[FirstParent(c)][P] # Absent
    /\ trees[c][P] # Absent
    /\ trees[FirstParent(c)][P] # trees[c][P]
    /\ \A q \in TreePaths \ {P} : trees[FirstParent(c)][q] = trees[c][q]

\* C5: for a commit that only modifies P, original is the decoded blob of P
\* in the first parent's tree and modified the decoded blob of P in the
\* commit's tree.
C5_FileDiffBothSides ==
    (/\ op.name = "get_commit_file_diff"
     /\ ValidHash(op.commit_hash)
     /\ op.file_path \in TreePaths
     /\ OnlyModifies(op.commit_hash, op.file_path)) =>
        /\ result.ok
        /\ result.original = from_utf8_lossy(trees[FirstParent(op.commit_hash)][op.file_path])
        /\ result.modified = from_utf8_lossy(trees[op.commit_hash][op.file_path])

\* a file diff of a merge commit whose two parents hold different blobs at P
C5_Witness ==
    /\ op.name = "get_commit_file_diff"
    /\ ValidHash(op.commit_hash)
    /\ op.file_path \in TreePaths
    /\ OnlyModifies(op.commit_hash, op.file_path)
    /\ Len(parents[op.commit_hash]) = 2
    /\ trees[parents[op.commit_hash][2]][op.file_path] = trees[op.commit_hash][op.file_path]
    /\ result.ok
    /\ result.original # result.modified

\* C6: a side on which the path does not exist is the empty string and the
\* call succeeds, the other side carrying the decoded blob: path added by
\* the commit, path deleted by it, or commit without parent; a malformed or
\* unknown hash is an error.
C6_MissingSideEmpty ==
    (op.name = "get_commit_file_diff") =>
        LET c == op.commit_hash
            P == op.file_path
        IN  /\ ~ValidHash(c) => ~result.ok
            /\ ValidHash(c) => result.ok
            /\ (ValidHash(c) /\ P \in TreePaths /\ ~HasParent(c) /\ trees[c][P] # Absent) =>
                   /\ result.original = <<>>
                   /\ result.modified = from_utf8_lossy(trees[c][P])
            /\ (/\ ValidHash(c) /\ P \in TreePaths /\ HasParent(c)
                /\ trees[FirstParent(c)][P] = Absent /\ trees[c][P] # Absent) =>
                   /\ result.original = <<>>
                   /\ result.modified = from_utf8_lossy(trees[c][P])
            /\ (/\ ValidHash(c) /\ P \in TreePaths /\ HasParent(c)
                /\ trees[FirstParent(c)][P] # Absent /\ trees[c][P] = Absent) =>
                   /\ result.original = from_utf8_lossy(trees[FirstParent(c)][P])
                   /\ result.modified = <<>>

\* a file diff of a path the commit deleted
C6_Witness ==
    /\ op.name = "get_commit_file_diff"
    /\ ValidHash(op.commit_hash)
    /\ op.file_path \in TreePaths
    /\ HasParent(op.commit_hash)
    /\ trees[FirstParent(op.commit_hash)][op.file_path] # Absent
    /\ trees[op.commit_hash][op.file_path] = Absent
    /\ result.ok
    /\ result.original # <<>>
    /\ result.modified = <<>>

ExpectedStatus(old_entry, new_entry) ==
    IF old_entry = Absent THEN "added"
    ELSE IF new_entry = Absent THEN "deleted"
    ELSE "modified"

\* C9: on a commit without parent every path of its tree is listed exactly
\* once, as added, and nothing else is; on a commit with parents the
\* listing is the difference from the first parent's tree.
C9_ChangesAgainstFirstParent ==
    (op.name = "get_commit_changes" /\ ValidHash(op.commit_hash)) =>
        LET c == op.commit_hash
            list == result.value
            old(p) == IF HasParent(c) THEN trees[FirstParent(c)][p] ELSE Absent
        IN  /\ result.ok
            /\ \A p \in TreePaths :
                   Cardinality({i \in 1..Len(list) : list[i].path = p})
                       = IF old(p) # trees[c][p] THEN 1 ELSE 0
            /\ \A i \in 1..Len(list) :
                   /\ list[i].path \in TreePaths
                   /\ list[i].status = ExpectedStatus(old(list[i].path), trees[c][list[i].path])
            /\ ~HasParent(c) => \A i \in 1..Len(list) : list[i].status = "added"

\* the changes of a commit without parent whose tree holds every path
C9_Witness ==
    /\ op.name = "get_commit_changes"
    /\ ValidHash(op.commit_hash)
    /\ ~HasParent(op.commit_hash)
    /\ \A p \in TreePaths : trees[op.commit_hash][p] # Absent
    /\ result.ok
    /\ Len(result.value) = Cardinality(TreePaths)

(***************************************************************************)
(* get_status.  `statuses' is what repo.statuses reports: for each path    *)
(* the set of git2::Status flags raised for it; a path with no flag is not *)
(* listed.  With StatusOptions::new() and show(StatusShow::Workdir) only   *)
(* the index is compared with the working directory and untracked files    *)
(* are left out, so a listed path carries one of the flags WorkdirFlags.   *)
(* The classification is a function of any set of flags.                   *)
(***************************************************************************)
StatusFlags == {"INDEX_NEW", "INDEX_MODIFIED", "INDEX_DELETED",
                "WT_NEW", "WT_MODIFIED", "WT_DELETED", "WT_TYPECHANGE",
                "CONFLICTED"}
WorkdirFlags == {"WT_MODIFIED", "WT_DELETED", "WT_TYPECHANGE", "CONFLICTED"}
StatusPathOrder == <<"a.txt", "b.txt">>
StatusPaths == {StatusPathOrder[i] : i \in 1..Len(StatusPathOrder)}

\* the classification with the modified test placed before the new test
status_str_modified_first(status) ==
    IF "INDEX_MODIFIED" \in status \/ "WT_MODIFIED" \in status THEN "modified"
    ELSE IF "INDEX_NEW" \in status \/ "WT_NEW" \in status THEN "new"
    ELSE IF "INDEX_DELETED" \in status \/ "WT_DELETED" \in status THEN "deleted"
    ELSE "unknown"

\* let status_str = if status.contains(INDEX_NEW) || status.contains(WT_NEW) ...
status_str(status) ==
    IF "INDEX_NEW" \in status \/ "WT_NEW" \in status THEN "new"
    ELSE IF "INDEX_MODIFIED" \in status \/ "WT_MODIFIED" \in status THEN "modified"
    ELSE IF "INDEX_DELETED" \in status \/ "WT_DELETED" \in status THEN "deleted"
    ELSE "unknown"

\* statuses.iter(): the listed paths in path order
status_entries(st) == SelectSeq(StatusPathOrder, LAMBDA p : st[p] # {})

get_status(st) ==
    LET entries == status_entries(st)
    IN  [ok |-> TRUE, kind |-> "status",
         value |-> [i \in 1..Len(entries) |->
                       [file_path |-> entries[i],
                        status |-> status_str(st[entries[i]])]]]

InitStatus ==
    /\ fsys = IdleFs
    /\ isBare = FALSE
    /\ branches = IdleBranches
    /\ remotes = IdleRemotes
    /\ HEAD = IdleHead
    /\ workdir = NoCommit
    /\ parents = IdleParents
    /\ cmeta = IdleMeta
    /\ trees = IdleTrees
    /\ statuses \in [StatusPaths -> {{}} \cup {{f} : f \in WorkdirFlags}]
    /\ op = NoOp
    /\ result = NoResult

GetStatus ==
    /\ op' = [name |-> "get_status"]
    /\ result' = get_status(statuses)
    /\ UNCHANGED <<fsys, isBare, branches, remotes, HEAD, workdir, parents,
                   cmeta, trees, statuses>>

\* the classification of one entry's flags
StatusStr(status) ==
    /\ op' = [name |-> "status_str", status |-> status]
    /\ result' = [ok |-> TRUE, kind |-> "status_str", value |-> status_str(status)]
    /\ UNCHANGED <<fsys, isBare, branches, remotes, HEAD, workdir, parents,
                   cmeta, trees, statuses>>

NextStatus ==
    \/ GetStatus
    \/ \E status \in SUBSET StatusFlags : StatusStr(status)

SpecStatus == InitStatus /\ [][NextStatus]_vars

(***************************************************************************)
(* Properties of the status scanner.                                       *)
(***************************************************************************)
Precedence == <<"new", "modified", "deleted">>
CategoryFlags ==
    [new |-> {"INDEX_NEW", "WT_NEW"},
     modified |-> {"INDEX_MODIFIED", "WT_MODIFIED"},
     deleted |-> {"INDEX_DELETED", "WT_DELETED"}]

Eligible(flags) == {k \in 1..Len(Precedence) : CategoryFlags[Precedence[k]] \cap flags # {}}

FirstCategory(flags) ==
    LET el == Eligible(flags)
    IN  IF el = {} THEN "unknown"
        ELSE Precedence[CHOOSE k \in el : \A m \in el : k <= m]

\* C7: a set of flags is classified in the first of the categories new,
\* modified, deleted of which it holds an index or working-tree flag, and as
\* unknown when it holds none of them; get_status lists every path that
\* carries a flag once, classified that way.
C7_StatusPrecedence ==
    /\ (op.name = "status_str") => result.value = FirstCategory(op.status)
    /\ (op.name = "get_status") =>
           /\ result.ok
           /\ \A i \in 1..Len(result.value) :
                  result.value[i].status =
                      FirstCategory(statuses[result.value[i].file_path])
           /\ \A p \in StatusPaths :
                  Cardinality({i \in 1..Len(result.value) :
                                  result.value[i].file_path = p})
                      = IF statuses[p] = {} THEN 0 ELSE 1

\* flags of all three categories at once, classified as new
C7_Witness ==
    /\ op.name = "status_str"
    /\ {"WT_NEW", "INDEX_MODIFIED", "WT_DELETED"} \subseteq op.status
    /\ result.value = "new"

====
